---- MODULE Spec2Model ----
(***************************************************************************)
(* A model of dashboard.py: the cached loader (load_data and its sample    *)
(* fallback create_sample_data) and the page script that filters the       *)
(* loaded table and computes the KPIs, the charts and the weekday          *)
(* distribution on every run.                                              *)
(*                                                                         *)
(* Text is a sequence of tokens; the token " " is a run of whitespace and  *)
(* the token "," is a comma, so that strip() and split(',') do real work.  *)
(* A cell of a table is a record tagged with its kind: "str" (text),       *)
(* "ts" (a timestamp, counted in ticks since 2023-01-01 00:00), "bool",    *)
(* "num" (a count) or "nan" (pandas' missing value, NaN/NaT).              *)
(* A table is [cols, rows]: the set of column names and the sequence of    *)
(* rows; a row is [label, cells], its index label (the row keeps it        *)
(* through every filter) and a function from the column names to cells.    *)
(***************************************************************************)
EXTENDS Integers, Sequences, FiniteSets, TLC

\* ---------------------------------------------------------------- bounds
\* Rows of an input file.
MaxRows == 2
\* Ticks of the clock in one day (the resolution of the time of day).
TicksPerDay == 2
\* Filter widgets set away from their default in one page run.
MaxActive == 2
\* Explicit cache clears in one session.
MaxClears == 1

\* ---------------------------------------------------------------- cells
Str(toks) == [kind |-> "str", val |-> toks]
S(tok) == Str(<<tok>>)
Ts(t) == [kind |-> "ts", t |-> t]
Num(n) == [kind |-> "num", n |-> n]
Bool(txt) == [kind |-> "bool", val |-> <<txt>>]
\* NaN / NaT; val is what str() renders it as.
NaN == [kind |-> "nan", val |-> <<"nan">>]

IsNa(c) == c.kind = "nan"

\* str.strip(): leading and trailing whitespace removed.
RECURSIVE LStrip(_)
LStrip(s) == IF s # <<>> /\ Head(s) = " " THEN LStrip(Tail(s)) ELSE s

RECURSIVE RStrip(_)
RStrip(s) ==
    IF s # <<>> /\ s[Len(s)] = " " THEN RStrip(SubSeq(s, 1, Len(s) - 1)) ELSE s

Strip(s) == RStrip(LStrip(s))

\* str.split(',')[0]: the text before the first comma.
RECURSIVE FirstSegment(_)
FirstSegment(s) ==
    IF s = <<>> \/ Head(s) = "," THEN <<>> ELSE <<Head(s)>> \o FirstSegment(Tail(s))

\* Series.str.strip() on one cell: text is stripped, anything else is NaN.
StrStrip(c) == IF c.kind = "str" THEN Str(Strip(c.val)) ELSE NaN

\* Series.str.split(',').str[0] on one cell.
StrSplitFirst(c) == IF c.kind = "str" THEN Str(FirstSegment(c.val)) ELSE NaN

\* Series.astype(str) on one cell: str(x).
AsTypeStr(c) == IF c.kind = "ts" THEN S("ts") ELSE Str(c.val)

\* pd.to_datetime(errors='coerce') on one cell.
ToDatetime(c) == IF c.kind = "ts" THEN c ELSE NaN

\* ---------------------------------------------------------------- tables
\* df.index, the labels of the rows in their order.
Index(tbl) == [i \in DOMAIN tbl.rows |-> tbl.rows[i].label]

\* df.dropna(subset=...): the rows with no missing value in these columns.
DropNa(tbl, subset) ==
    [tbl EXCEPT !.rows = SelectSeq(tbl.rows, LAMBDA r : \A c \in subset : ~IsNa(r.cells[c]))]

\* The .str accessor is refused on a column pandas did not infer as text: a
\* non-empty column without a single text cell (all NaN is float64).
StrAccessorOk(tbl, col) ==
    tbl.rows = <<>> \/ \E i \in DOMAIN tbl.rows : tbl.rows[i].cells[col].kind = "str"


\* ---------------------------------------------------------------- sample data
n_jobs == 1000
\* Days from start_date 2023-01-01 to end_date 2023-12-31.
SpanDays == 364

job_titles ==
    <<"Data Analyst", "Business Analyst", "Data Scientist",
      "Business Intelligence Analyst", "Marketing Analyst",
      "Financial Analyst", "Research Analyst", "Operations Analyst">>

cities ==
    <<"New York", "San Francisco", "Chicago", "Boston", "Seattle",
      "Los Angeles", "Austin", "Denver", "Atlanta", "Miami">>

companies ==
    <<"Google", "Microsoft", "Amazon", "Meta", "Apple",
      "Netflix", "Uber", "Airbnb", "Spotify", "Tesla">>

states == <<" NY", " CA", " TX", " FL", " WA">>

\* np.random.choice(vocab, n_jobs)[i] under seed 42.  The stream of the seeded
\* generator is not reproduced: a fixed stand-in stream takes its place, and
\* only the vocabulary of each column and the row count are the program's.
Choice(vocab, i, k) == vocab[(((i * k) + k) % Len(vocab)) + 1]

\* np.random.choice(['Yes', 'No'], n_jobs, p=[pct/100, 1 - pct/100])[i].
ChoiceYesNo(pct, i, k) == IF (i * k) % 100 < pct THEN "Yes" ELSE "No"

\* pd.date_range(start, end, periods=n_jobs)[i]: evenly spaced timestamps.
DateRangeAt(i) == Ts(((i - 1) * SpanDays * TicksPerDay) \div (n_jobs - 1))

SampleColumns ==
    {"Job Title", "Company", "City", "Job Location", "Date", "Hired",
     "Easy Apply", "Salary_Min", "Salary_Max"}

SampleCells(i) ==
    [c \in SampleColumns |->
        CASE c = "Job Title" -> S(Choice(job_titles, i, 3))
          [] c = "Company" -> S(Choice(companies, i, 7))
          [] c = "City" -> S(Choice(cities, i, 9))
          [] c = "Job Location" ->
                Str(<<Choice(cities, i, 11), ",", Choice(states, i, 13)>>)
          [] c = "Date" -> DateRangeAt(i)
          [] c = "Hired" -> S(ChoiceYesNo(15, i, 37))
          [] c = "Easy Apply" -> S(ChoiceYesNo(60, i, 41))
          [] c = "Salary_Min" -> Num(50000 + ((i * 6997) % 70000))
          [] c = "Salary_Max" -> Num(70000 + ((i * 7993) % 80000))]

\* pd.DataFrame(sample_data): the rows are labelled 0 .. n_jobs - 1.
create_sample_data ==
    [cols |-> SampleColumns,
     rows |-> [i \in 1..n_jobs |-> [label |-> i - 1, cells |-> SampleCells(i)]]]

\* ---------------------------------------------------------------- input files
\* The columns of a complete input file (the salary columns are not read).
FileColumns == {"Date", "Job Title", "Job Location", "Company", "Hired", "Easy Apply"}

\* A timestamp on `day` (days since 2023-01-01) at tick `tod` of that day.
At(day, tod) == Ts((day * TicksPerDay) + tod)

RawRow(date, title, location, company, hired, easy) ==
    [c \in FileColumns |->
        CASE c = "Date" -> date
          [] c = "Job Title" -> title
          [] c = "Job Location" -> location
          [] c = "Company" -> company
          [] c = "Hired" -> hired
          [] c = "Easy Apply" -> easy]

NewYork == Str(<<"New York", ",", " NY">>)
Pune == Str(<<"Pune", ",", " MH">>)

\* The rows an input file is made of.
\* A clean row, early on Sunday 2023-01-01.
CleanRow == RawRow(At(0, 0), S("Data Analyst"), NewYork, S("Google"), S("Yes"), S("Yes"))
\* A row late on the Monday after, its title padded with whitespace.
LateRow ==
    RawRow(At(1, TicksPerDay - 1), Str(<<" ", "BI Engineer", " ">>), Pune,
           S("Initech"), S("No"), S("No"))
\* A row whose title is only whitespace, whose Hired cell is empty and whose
\* Easy Apply cell is a boolean.
BlankTitleRow == RawRow(At(2, 0), Str(<<" ">>), NewYork, S("Google"), NaN, Bool("True"))
\* A row whose date is text that is no date.
BadDateRow == RawRow(S("soon"), S("Data Analyst"), Pune, S("Initech"), S("No"), S("Yes"))
\* A row with no title.
NoTitleRow == RawRow(At(0, 0), NaN, NewYork, S("Google"), S("Yes"), S("No"))

RawRows == {CleanRow, LateRow, BlankTitleRow, BadDateRow, NoTitleRow}

SeqsUpTo(set, n) == UNION {[1..k -> set] : k \in 0..n}

Absent == [kind |-> "absent"]
\* A file that exists and that read_excel cannot read (not a workbook).
Unreadable == [kind |-> "unreadable"]
\* A workbook: its header and its rows of cells.
Table(cols, rows) == [kind |-> "table", cols |-> cols, rows |-> rows]

\* pd.read_excel(file_name): the rows are labelled 0, 1, ...
read_excel(file) ==
    [cols |-> file.cols,
     rows |-> [i \in DOMAIN file.rows |-> [label |-> i - 1, cells |-> file.rows[i]]]]

\* A workbook without some of its columns.
Without(rows, dropped) ==
    Table(FileColumns \ dropped,
          [i \in DOMAIN rows |-> [c \in FileColumns \ dropped |-> rows[i][c]]])

TwoRows == <<CleanRow, LateRow>>

Workbooks ==
    {Table(FileColumns, rs) : rs \in SeqsUpTo(RawRows, MaxRows)}
    \cup {Without(TwoRows, d) :
            d \in {{"Company"}, {"Hired", "Easy Apply"}, {"Date"}, {"Job Title"},
                   {"Job Location"}}}

\* What is on disk under the four candidate names, in the order they are tried.
Disks ==
    {<<f, Absent, Absent, Absent>> : f \in Workbooks \cup {Absent, Unreadable}}
    \cup {<<Absent, Absent, Table(FileColumns, TwoRows), Without(TwoRows, {"Date"})>>,
          <<Absent, Unreadable, Table(FileColumns, TwoRows), Absent>>,
          <<Absent, Absent, Absent, Table(FileColumns, TwoRows)>>}

\* ---------------------------------------------------------------- load_data
possible_files == 1..4

\* The for loop over possible_files: the first name read_excel finds (a
\* FileNotFoundError moves on to the next name), 0 when there is none.
RECURSIVE FirstFound(_, _)
FirstFound(d, i) ==
    IF i \notin possible_files THEN 0
    ELSE IF d[i].kind # "absent" THEN i
    ELSE FirstFound(d, i + 1)

\* The exception the data preprocessing of a table raises, "" when none:
\* df['Date'] of a table without the column, .str of a column that is no text.
PreprocessRaises(tbl) ==
    IF "Date" \notin tbl.cols THEN "KeyError"
    ELSE IF "Job Location" \in tbl.cols /\ ~StrAccessorOk(tbl, "Job Location")
    THEN "AttributeError"
    ELSE IF "Job Title" \in tbl.cols /\ ~StrAccessorOk(tbl, "Job Title")
    THEN "AttributeError"
    ELSE ""

\* Line 79, the Job Title cell of a row after it.
CleanTitle(tbl, cells) ==
    IF "Job Title" \in tbl.cols THEN StrStrip(cells["Job Title"]) ELSE S("Data Analyst")

\* Lines 75-81, the cells of one row after them.
PreprocessCells(tbl, cells) ==
    [c \in tbl.cols \cup {"City", "Job Title", "Hired", "Easy Apply"} |->
        CASE c = "Date" -> ToDatetime(cells["Date"])
          [] c = "City" ->
                IF "Job Location" \in tbl.cols
                THEN StrSplitFirst(cells["Job Location"])
                ELSE S("Unknown")
          [] c = "Job Title" -> CleanTitle(tbl, cells)
          [] c = "Hired" ->
                IF "Hired" \in tbl.cols THEN AsTypeStr(cells["Hired"]) ELSE S("No")
          [] c = "Easy Apply" ->
                IF "Easy Apply" \in tbl.cols THEN AsTypeStr(cells["Easy Apply"]) ELSE S("No")
          [] OTHER -> cells[c]]

\* Lines 75-84: the columns are normalised, then dropna(subset=['Date',
\* 'Job Title']) removes the rows with a missing date or title.
Preprocess(tbl) ==
    DropNa([cols |-> tbl.cols \cup {"City", "Job Title", "Hired", "Easy Apply"},
            rows |-> [i \in DOMAIN tbl.rows |->
                        [label |-> tbl.rows[i].label,
                         cells |-> PreprocessCells(tbl, tbl.rows[i].cells)]]],
           {"Date", "Job Title"})

\* An except clause that passes the exception on to the caller.
Reraise(exc) == [raised |-> exc, df |-> create_sample_data, msg |-> ""]

\* The except clause of load_data (lines 88-90): what it makes of an exception
\* of the body.  [raised, df, msg]: raised is what reaches the caller.
OnException(exc) == [raised |-> "", df |-> create_sample_data, msg |-> "error"]

\* Lines 74-86 for the table read.
Normalize(tbl) ==
    IF PreprocessRaises(tbl) # "" THEN OnException(PreprocessRaises(tbl))
    ELSE [raised |-> "", df |-> Preprocess(tbl), msg |-> ""]

\* Lines 64-86 for the file found.
LoadFrom(file) ==
    IF file.kind = "unreadable" THEN OnException("BadZipFile")
    ELSE Normalize(read_excel(file))

\* load_data(): [raised, df, msg].
load_data(d) ==
    IF FirstFound(d, 1) = 0
    THEN [raised |-> "", df |-> create_sample_data, msg |-> "warning"]
    ELSE LoadFrom(d[FirstFound(d, 1)])

\* ---------------------------------------------------------------- the page script
\* Timestamp.date(), in days since 2023-01-01.
DateOf(c) == c.t \div TicksPerDay

Least(set) == CHOOSE m \in set : \A x \in set : m <= x
Greatest(set) == 0 - Least({0 - x : x \in set})

\* df['Date'].min() and .max(), as ticks.
DateMin(tbl) == Least({tbl.rows[i].cells["Date"].t : i \in DOMAIN tbl.rows})
DateMax(tbl) == Greatest({tbl.rows[i].cells["Date"].t : i \in DOMAIN tbl.rows})

\* df[col].unique(), as a set.
Unique(tbl, col) == {tbl.rows[i].cells[col] : i \in DOMAIN tbl.rows}

\* A frame the script holds: its table, and whether it is the very object df
\* (an assignment into it then writes into df) or an object of its own.
Frame(tbl, same) == [tbl |-> tbl, same_as_df |-> same]

\* filtered_df = df without .copy(): the same object under a second name.
Alias(tbl) == Frame(tbl, TRUE)

\* df.copy(): a new object with the same content.
Copy(tbl) == Frame(tbl, FALSE)

\* Boolean indexing, frame[mask]: a new object with the rows kept.
Take(f, rows) == Frame([cols |-> f.tbl.cols, rows |-> rows], FALSE)

\* The timestamps themselves compared with the picked days, which stand for
\* their midnights.
InTimestampRange(r, start_date, end_date) ==
    /\ r.cells["Date"].t >= start_date * TicksPerDay
    /\ r.cells["Date"].t <= end_date * TicksPerDay

\* (Date.dt.date >= start_date) & (Date.dt.date <= end_date), of one row.
InDateRange(r, start_date, end_date) ==
    DateOf(r.cells["Date"]) >= start_date /\ DateOf(r.cells["Date"]) <= end_date

\* Lines 194-199.
DateFilter(f, date_range) ==
    IF Len(date_range) = 2
    THEN Take(f, SelectSeq(f.tbl.rows,
                           LAMBDA r : InDateRange(r, date_range[1], date_range[2])))
    ELSE f

\* The isin filter without its `if selected:` guard.
IsinUnguarded(f, col, selected) ==
    Take(f, SelectSeq(f.tbl.rows, LAMBDA r : r.cells[col] \in selected))

\* if selected: filtered_df = filtered_df[filtered_df[col].isin(selected)]
IsinFilter(f, col, selected) ==
    IF selected # {}
    THEN Take(f, SelectSeq(f.tbl.rows, LAMBDA r : r.cells[col] \in selected))
    ELSE f

\* if value != "All": filtered_df = filtered_df[filtered_df[col] == value]
EqFilter(f, col, value) ==
    IF value # "All"
    THEN Take(f, SelectSeq(f.tbl.rows, LAMBDA r : r.cells[col] = S(value)))
    ELSE f

\* len(df[df[col] == value])
CountEq(tbl, col, value) ==
    Cardinality({i \in DOMAIN tbl.rows : tbl.rows[i].cells[col] = S(value)})

Max(a, b) == IF a >= b THEN a ELSE b

\* The days between the first and the last date, without the max(1, ...).
DaysBetween(tbl) == (DateMax(tbl) - DateMin(tbl)) \div TicksPerDay

\* Line 251: max(1, (Date.max() - Date.min()).days).
DaysSpanned(tbl) == Max(1, (DateMax(tbl) - DateMin(tbl)) \div TicksPerDay)

\* Lines 226-256: the KPIs.  A ratio is kept as [num, den].
Kpis(tbl) ==
    [total_jobs |-> Len(tbl.rows),
     hired_pct |-> [num |-> 100 * CountEq(tbl, "Hired", "Yes"), den |-> Len(tbl.rows)],
     easy_pct |-> [num |-> 100 * CountEq(tbl, "Easy Apply", "Yes"), den |-> Len(tbl.rows)],
     avg_jobs_per_day |-> [num |-> Len(tbl.rows), den |-> DaysSpanned(tbl)]]

\* How many rows have Easy Apply = e, and Hired = h among them.
CountEasy(tbl, e) ==
    Cardinality({i \in DOMAIN tbl.rows : tbl.rows[i].cells["Easy Apply"] = e})
CountBoth(tbl, e, h) ==
    Cardinality({i \in DOMAIN tbl.rows :
                    tbl.rows[i].cells["Easy Apply"] = e /\ tbl.rows[i].cells["Hired"] = h})

\* Line 357: pd.crosstab(Easy Apply, Hired, normalize='index') * 100: one row
\* for each Easy Apply value and one column for each Hired value that occurs.
Crosstab(tbl) ==
    [index |-> Unique(tbl, "Easy Apply"),
     columns |-> Unique(tbl, "Hired"),
     pct |-> [k \in Unique(tbl, "Easy Apply") \X Unique(tbl, "Hired") |->
                [num |-> 100 * CountBoth(tbl, k[1], k[2]), den |-> CountEasy(tbl, k[1])]]]

\* Lines 359-366: px.bar(..., y=['No', 'Yes']) raises a ValueError when one of
\* the columns it is to plot is not in the frame.
Fig7Raises(columns) == ~({S("No"), S("Yes")} \subseteq columns)

WeekDays ==
    <<"Monday", "Tuesday", "Wednesday", "Thursday", "Friday", "Saturday", "Sunday">>

\* Timestamp.day_name(); 2023-01-01 was a Sunday.
DayName(c) == S(WeekDays[((DateOf(c) + 6) % 7) + 1])

\* Line 390, filtered_df['DayOfWeek'] = ...: the column is written into the
\* object filtered_df names.
SetDayOfWeek(f) ==
    Frame([cols |-> f.tbl.cols \cup {"DayOfWeek"},
           rows |-> [i \in DOMAIN f.tbl.rows |->
                       [label |-> f.tbl.rows[i].label,
                        cells |-> [c \in f.tbl.cols \cup {"DayOfWeek"} |->
                                     IF c = "DayOfWeek"
                                     THEN DayName(f.tbl.rows[i].cells["Date"])
                                     ELSE f.tbl.rows[i].cells[c]]]]],
          f.same_as_df)

\* Series.value_counts(): the count of each value that occurs.
ValueCounts(tbl, col) ==
    [v \in Unique(tbl, col) |->
        Cardinality({i \in DOMAIN tbl.rows : tbl.rows[i].cells[col] = v})]

\* Series.reindex(labels): the value at each label, NaN where it has none.
Reindex(counts, labels) ==
    [k \in DOMAIN labels |->
        [label |-> labels[k],
         value |-> IF S(labels[k]) \in DOMAIN counts
                   THEN Num(counts[S(labels[k])])
                   ELSE NaN]]

\* Lines 391-393.
DailyPattern(tbl) == Reindex(ValueCounts(tbl, "DayOfWeek"), WeekDays)

\* ---------------------------------------------------------------- exports
\* A cell as DataFrame.to_csv writes it: a missing value is the empty field,
\* any other cell its printed form, which the cell itself stands for.
CsvField(c) == IF IsNa(c) THEN Str(<<>>) ELSE c

\* Line 439, filtered_df.to_csv(index=False): a header and one line of fields
\* for each row, the index left out.
to_csv(tbl) ==
    [header |-> tbl.cols,
     lines |-> [i \in DOMAIN tbl.rows |->
                  [c \in tbl.cols |-> CsvField(tbl.rows[i].cells[c])]]]

\* A field as pd.read_csv reads it back: the empty field is a missing value.
CsvValue(field) == IF field = Str(<<>>) THEN NaN ELSE field

\* pd.read_csv of a CSV payload: the records it carries.
read_csv(data) ==
    [i \in DOMAIN data.lines |-> [c \in data.header |-> CsvValue(data.lines[i][c])]]

\* Line 450, pd.ExcelWriter('buffer', engine='openpyxl'): the string is a
\* path, so the writer is onto the file of that name in the server's working
\* directory; an ExcelWriter has no getvalue attribute.
ExcelWriter(path) == [path |-> path, has_getvalue |-> FALSE]

\* Line 451, to_excel(writer, index=False, sheet_name='Jobs'): the workbook
\* the writer saves, one sheet with the rows of the table.
to_excel(tbl, sheet_name) ==
    [sheets |-> <<sheet_name>>,
     header |-> tbl.cols,
     lines |-> [i \in DOMAIN tbl.rows |-> tbl.rows[i].cells]]

\* Line 456, the data of the Excel download button: the writer's getvalue()
\* if it has one, else b'' (here <<>>).
ExcelData(writer, book) == IF writer.has_getvalue THEN <<book>> ELSE <<>>

\* What a payload carries: whether it parses, how many records it holds and
\* their job titles.
Carried(records) ==
    [parses |-> TRUE,
     count |-> Len(records),
     titles |-> {records[i]["Job Title"] : i \in DOMAIN records}]

\* A payload that is no workbook (b'' is no zip archive) carries nothing.
NotParsed == [parses |-> FALSE, count |-> 0, titles |-> {}]

\* Reading the Excel payload back.
ReadExcelData(data) == IF data = <<>> THEN NotParsed ELSE Carried(data[1].lines)

\* ---------------------------------------------------------------- widgets
\* The option values the user picks among in the multiselects.
Clicks ==
    {S("Data Analyst"), S("BI Engineer"), Str(<<>>), S("New York"), S("Pune"),
     S("Google"), S("Initech"), S("Unknown")}

\* Lines 145-188, the sidebar for the table df: the bounds of the date picker
\* and the options of the multiselects (the Company one exists only with a
\* Company column).
Sidebar(tbl) ==
    [min_date |-> DateMin(tbl) \div TicksPerDay,
     max_date |-> DateMax(tbl) \div TicksPerDay,
     job_titles |-> Unique(tbl, "Job Title"),
     cities |-> Unique(tbl, "City"),
     companies |-> IF "Company" \in tbl.cols THEN Unique(tbl, "Company") ELSE {}]

\* The widgets as a first run shows them.
Default(bar) ==
    [date_range |-> <<bar.min_date, bar.max_date>>,
     title |-> {}, city |-> {}, company |-> {}, hired |-> "All", easy |-> "All"]

\* The days the user picks among in the date picker, which offers min_date to
\* max_date: the two ends and the day after the first.
DayPicks(bar) ==
    {bar.min_date, bar.max_date} \cup {d \in {bar.min_date + 1} : d <= bar.max_date}

\* What st.date_input returns: (start, end), or (start,) while the end is
\* not picked yet.
DateRanges(bar) ==
    {<<s>> : s \in DayPicks(bar)}
    \cup {r \in DayPicks(bar) \X DayPicks(bar) : r[1] <= r[2]}

\* The number of widgets set away from their default.
Active(sel, bar) == Cardinality({w \in DOMAIN sel : sel[w] # Default(bar)[w]})

\* The settings one interaction leads to: one widget changed, or none (a
\* plain rerun).
OneChange(sel, bar) ==
    {c \in {sel}
           \cup {[sel EXCEPT !.date_range = d] : d \in DateRanges(bar)}
           \cup {[sel EXCEPT !.title = t] : t \in SUBSET (bar.job_titles \cap Clicks)}
           \cup {[sel EXCEPT !.city = t] : t \in SUBSET (bar.cities \cap Clicks)}
           \cup {[sel EXCEPT !.company = t] : t \in SUBSET (bar.companies \cap Clicks)}
           \cup {[sel EXCEPT !.hired = h] : h \in {"All", "Yes", "No"}}
           \cup {[sel EXCEPT !.easy = h] : h \in {"All", "Yes", "No"}} :
        Active(c, bar) <= MaxActive}

\* ---------------------------------------------------------------- the session
VARIABLES
    disk,      \* what is on disk under the four candidate names
    cache,     \* st.cache_data's entry for load_data: <<>> or <<its value>>
    reads,     \* how many times the body of load_data has run
    clears,    \* how many times the cache was cleared
    df,        \* <<>> or <<the table df names at the end of the last run>>
    page,      \* the last page run
    storage    \* the files the runs wrote into the server's working directory

vars == <<disk, cache, reads, clears, df, page, storage>>

\* The state holds the sample table, a constant of the program, by reference.
Hold(tbl) ==
    IF tbl = create_sample_data THEN [ref |-> "sample"] ELSE [ref |-> "table", tbl |-> tbl]

TableOf(held) == IF held.ref = "sample" THEN create_sample_data ELSE held.tbl

\* What the page keeps of filtered_df: which rows of df it holds, by label
\* and in order, and its columns.
Shape(tbl) == [index |-> Index(tbl), cols |-> tbl.cols]

NoPage ==
    [outcome |-> "none", data_loaded |-> FALSE, msg |-> "", widgets |-> <<>>,
     filtered |-> <<>>, kpis |-> <<>>, crosstab |-> <<>>, daily_pattern |-> <<>>,
     exports |-> <<>>]

\* A call of load_data whose body ran and returned or raised: what the caller
\* gets, what st.cache_data keeps (nothing of a call that raised).
Ran(v) ==
    [value |-> v, stored |-> IF v.raised = "" THEN <<v>> ELSE <<>>, read |-> TRUE]

\* load_data without the decorator: every call runs the body.
Uncached(entry, d) == Ran([load_data(d) EXCEPT !.df = Hold(@)])

\* @st.cache_data on load_data (line 50): the body runs when there is no
\* entry, and its value is stored; otherwise the entry is served.
cache_data(entry, d) ==
    IF entry # <<>>
    THEN [value |-> entry[1], stored |-> entry, read |-> FALSE]
    ELSE Ran([load_data(d) EXCEPT !.df = Hold(@)])

\* Lines 437-460, the two download buttons for filtered_df: what each payload
\* carries when it is read back.  Closing the writer saves its workbook.
Exports(tbl, base) ==
    \E csv_data \in {to_csv(tbl)}, excel_buffer \in {ExcelWriter("buffer")} :
    \E records \in {read_csv(csv_data)} :
        /\ page' = [base EXCEPT !.exports =
                        <<[csv |-> Carried(records),
                           excel |-> ReadExcelData(
                                        ExcelData(excel_buffer, to_excel(tbl, "Jobs")))]>>]
        /\ storage' = storage \cup {excel_buffer.path}

\* Lines 217-460 for a filtered_df that is not empty.  The run dies at the
\* bar chart of the cross-tab (outcome "exception") or renders all of it.
Dashboard(ld, base, f) ==
    \E kpis \in {Kpis(f.tbl)}, crosstab \in {Crosstab(f.tbl)} :
        IF Fig7Raises(crosstab.columns)
        THEN /\ page' = [base EXCEPT !.outcome = "exception",
                                     !.filtered = <<Shape(f.tbl)>>,
                                     !.kpis = <<kpis>>, !.crosstab = <<crosstab>>]
             /\ df' = <<ld.df>>
             /\ storage' = storage
        ELSE \E with_day \in {SetDayOfWeek(f)} :
             /\ Exports(with_day.tbl,
                        [base EXCEPT !.outcome = "rendered",
                                     !.filtered = <<Shape(with_day.tbl)>>,
                                     !.kpis = <<kpis>>, !.crosstab = <<crosstab>>,
                                     !.daily_pattern = <<DailyPattern(with_day.tbl)>>])
             /\ df' = IF with_day.same_as_df
                      THEN <<[ref |-> "table", tbl |-> with_day.tbl]>>
                      ELSE <<ld.df>>

\* Lines 190-220: the filters, applied in turn to a copy of df; then the
\* warning of line 219 (outcome "empty") or the dashboard.
Filtered(ld, tbl, sel) ==
    \E f0 \in {Copy(tbl)} :
    \E f1 \in {DateFilter(f0, sel.date_range)} :
    \E f2 \in {IsinFilter(f1, "Job Title", sel.title)} :
    \E f3 \in {IsinFilter(f2, "City", sel.city)} :
    \E f4 \in {IsinFilter(f3, "Company", sel.company)} :
    \E f5 \in {EqFilter(f4, "Hired", sel.hired)} :
    \E filtered_df \in {EqFilter(f5, "Easy Apply", sel.easy)} :
    \E base \in {[NoPage EXCEPT !.data_loaded = TRUE, !.msg = ld.msg,
                                !.widgets = <<sel>>]} :
        IF Len(filtered_df.tbl.rows) = 0
        THEN /\ page' = [base EXCEPT !.outcome = "empty",
                                     !.filtered = <<Shape(filtered_df.tbl)>>]
             /\ df' = <<ld.df>>
             /\ storage' = storage
        ELSE Dashboard(ld, base, filtered_df)

\* Lines 132-485, one run of the script for the value `ld` of load_data().
\* `first` says that no widget is on the page yet: the run then shows the
\* defaults, else what one interaction makes of the settings on the page.
\* `change` says whether this run follows an interaction (else the settings
\* stay).  An exception of load_data or an empty table ends in the error
\* message of line 484 (outcome "unable").
Script(ld, change) ==
    IF ld.raised # ""
    THEN /\ page' = [NoPage EXCEPT !.outcome = "unable"]
         /\ df' = <<>>
         /\ storage' = storage
    ELSE \E tbl \in {TableOf(ld.df)} :
         IF tbl.rows = <<>>
         THEN /\ page' = [NoPage EXCEPT !.outcome = "unable", !.data_loaded = TRUE,
                                        !.msg = ld.msg]
              /\ df' = <<ld.df>>
              /\ storage' = storage
         ELSE \E bar \in {Sidebar(tbl)} :
              \E sel \in IF page.widgets = <<>> THEN {Default(bar)}
                         ELSE IF change THEN OneChange(page.widgets[1], bar)
                         ELSE {page.widgets[1]} :
                  Filtered(ld, tbl, sel)

Init ==
    /\ disk \in Disks
    /\ cache = <<>>
    /\ reads = 0
    /\ clears = 0
    /\ df = <<>>
    /\ page = NoPage
    /\ storage = {}

\* One run of the script: the first one of the session, or the rerun that an
\* interaction with a widget triggers.
Rerun ==
    /\ reads <= MaxClears + 1
    /\ \E c \in {cache_data(cache, disk)} :
          /\ cache' = c.stored
          /\ reads' = reads + (IF c.read THEN 1 ELSE 0)
          /\ Script(c.value, TRUE)
    /\ UNCHANGED <<disk, clears>>

\* Lines 214-215, the Reset Filters button: the run it triggers reaches
\* st.rerun(), which starts the script over with the widgets as they are.
ResetFilters ==
    /\ page.widgets # <<>>
    /\ reads <= MaxClears + 1
    /\ \E c1 \in {cache_data(cache, disk)} :
       \E c2 \in {cache_data(c1.stored, disk)} :
          /\ cache' = c2.stored
          /\ reads' = reads + (IF c1.read THEN 1 ELSE 0) + (IF c2.read THEN 1 ELSE 0)
          /\ Script(c2.value, FALSE)
    /\ UNCHANGED <<disk, clears>>

\* The user clears the cache (the app menu's Clear cache).
ClearCache ==
    /\ clears < MaxClears
    /\ cache' = <<>>
    /\ clears' = clears + 1
    /\ UNCHANGED <<disk, reads, df, page, storage>>

Next == Rerun \/ ResetFilters \/ ClearCache

Spec == Init /\ [][Next]_vars

\* ---------------------------------------------------------------- properties
\* The table df names after the last run, and the settings of that run.
Loaded == TableOf(df[1])
Selection == page.widgets[1]

\* A record satisfies every active predicate of a selection: an incomplete
\* date range, an empty multiselect and "All" ask nothing.
Satisfies(r, sel) ==
    /\ Len(sel.date_range) = 2 =>
          /\ sel.date_range[1] <= DateOf(r.cells["Date"])
          /\ DateOf(r.cells["Date"]) <= sel.date_range[2]
    /\ sel.title # {} => r.cells["Job Title"] \in sel.title
    /\ sel.city # {} => r.cells["City"] \in sel.city
    /\ sel.company # {} => r.cells["Company"] \in sel.company
    /\ sel.hired # "All" => r.cells["Hired"] = S(sel.hired)
    /\ sel.easy # "All" => r.cells["Easy Apply"] = S(sel.easy)

\* The records of the loaded table that satisfy the selection, in its order.
Matches == SelectSeq(Loaded.rows, LAMBDA r : Satisfies(r, Selection))

Labels(rows) == [i \in DOMAIN rows |-> rows[i].label]

\* C1: the filtered subset of a run is exactly the records of the loaded
\* table that satisfy every active predicate of the selection, in the table's
\* order: nothing else is in it and no such record is left out.
C1_FilteredIsExactlyTheMatches ==
    page.filtered # <<>> => page.filtered[1].index = Labels(Matches)

\* Two dimensions are active and keep some records while leaving others out.
C1_Witness ==
    /\ page.filtered # <<>>
    /\ Selection.title # {}
    /\ Selection.hired # "All"
    /\ Len(page.filtered[1].index) > 0
    /\ Len(page.filtered[1].index) < Len(Loaded.rows)

\* The load fails: no candidate exists, or the first one that exists cannot
\* be read or normalised.
LoadFails(d) ==
    \/ FirstFound(d, 1) = 0
    \/ d[FirstFound(d, 1)].kind = "unreadable"
    \/ PreprocessRaises(read_excel(d[FirstFound(d, 1)])) # ""

\* C2: load_data never raises to the script, so every run has data_loaded
\* true; and when no candidate exists or the first existing one fails to be
\* read or normalised, df is the sample dataset of 1000 records and the run
\* goes on to the filters.
C2_LoaderFallsBackToSample ==
    page.outcome # "none" =>
        /\ page.data_loaded
        /\ LoadFails(disk) =>
              /\ df = <<[ref |-> "sample"]>>
              /\ Len(Loaded.rows) = 1000
              /\ page.outcome \in {"empty", "exception", "rendered"}

\* The first existing candidate is a workbook without a Date column, and the
\* run rendered the dashboard.
C2_Witness ==
    /\ page.outcome = "rendered"
    /\ FirstFound(disk, 1) # 0
    /\ disk[FirstFound(disk, 1)].kind = "table"
    /\ "Date" \notin disk[FirstFound(disk, 1)].cols

\* C3: no run ends in an unhandled error: each ends in the rendered dashboard
\* or in a visible message (the error message, the no-matches warning).
C3_NoRunEndsInAnError == page.outcome \in {"none", "unable", "empty", "rendered"}

\* The whole days between the first and the last date of the matches.
Times(rows) == {rows[i].cells["Date"].t : i \in DOMAIN rows}
DaysAcross(times) == (Greatest(times) - Least(times)) \div TicksPerDay
MatchDays == DaysAcross(Times(Matches))

\* C4: a run with an empty filtered subset ends in the no-matches warning and
\* computes no KPI, cross-tab or distribution; a run with a non-empty one
\* divides by max(1, days spanned) for jobs per day, and every divisor of the
\* run is at least 1.
C4_NoDivisionByZero ==
    /\ page.filtered # <<>> /\ page.filtered[1].index = <<>> =>
          /\ page.outcome = "empty"
          /\ page.kpis = <<>> /\ page.crosstab = <<>> /\ page.daily_pattern = <<>>
    /\ page.outcome = "empty" => page.filtered[1].index = <<>>
    /\ page.kpis # <<>> =>
          /\ page.kpis[1].avg_jobs_per_day.den >= 1
          /\ page.kpis[1].avg_jobs_per_day.den
                = (LET days == MatchDays IN IF days >= 1 THEN days ELSE 1)
          /\ page.kpis[1].hired_pct.den >= 1
          /\ page.kpis[1].easy_pct.den >= 1
    /\ page.crosstab # <<>> =>
          \A k \in DOMAIN page.crosstab[1].pct : page.crosstab[1].pct[k].den >= 1

\* Two records of the same day are shown: the days spanned are 0 and the
\* divisor is 1.
C4_Witness ==
    /\ page.kpis # <<>>
    /\ page.kpis[1].total_jobs = 2
    /\ MatchDays = 0
    /\ page.kpis[1].avg_jobs_per_day.den = 1

\* C5: the body of load_data runs at most once for each time the cache was
\* cleared, plus once; a step runs it only when the cache has no entry; a run
\* that finds an entry is served its dataset and leaves the entry as it is;
\* and only a clear empties the cache.
C5_ReadAtMostOnce ==
    /\ [](reads <= clears + 1)
    /\ [][/\ reads' # reads => cache = <<>> /\ reads' = reads + 1
          /\ cache # <<>> /\ clears' = clears =>
                cache' = cache /\ reads' = reads /\ df' = <<cache[1].df>>
          /\ cache # <<>> /\ cache' # cache => cache' = <<>> /\ clears' = clears + 1]_vars

\* A later run, after a change of the Hired filter, with one read so far.
C5_Witness ==
    /\ reads = 1
    /\ clears = 0
    /\ page.widgets # <<>>
    /\ Selection.hired # "All"
    /\ page.filtered # <<>>

\* C6: after any run, df is the table load_data makes of the disk: the same
\* records, columns and values.
C6_LoadedTableIsNeverMutated == df # <<>> => df[1] = Hold(load_data(disk).df)

\* A run that applied no filter at all (incomplete date range, nothing else
\* chosen) and added the DayOfWeek column to filtered_df.
C6_Witness ==
    /\ page.outcome = "rendered"
    /\ Len(Selection.date_range) = 1
    /\ Selection.title = {} /\ Selection.city = {} /\ Selection.company = {}
    /\ Selection.hired = "All" /\ Selection.easy = "All"
    /\ "DayOfWeek" \in page.filtered[1].cols
    /\ "DayOfWeek" \notin Loaded.cols

\* Nothing is selected: the multiselects are empty, both selectboxes are on
\* "All", and the date range is the default one or incomplete.
NothingSelected(sel) ==
    /\ sel.title = {} /\ sel.city = {} /\ sel.company = {}
    /\ sel.hired = "All" /\ sel.easy = "All"
    /\ \/ Len(sel.date_range) = 1
       \/ sel.date_range = <<DateOf(Ts(DateMin(Loaded))), DateOf(Ts(DateMax(Loaded)))>>

\* C7: with nothing selected the filtered subset is the whole loaded table,
\* the same records in the same order.
C7_NoFilterKeepsAll ==
    page.widgets # <<>> /\ NothingSelected(Selection) =>
        page.filtered[1].index = Labels(Loaded.rows)

\* The default date range, over a table whose last record is later in the
\* day on the maximum date.
C7_Witness ==
    /\ page.widgets # <<>>
    /\ NothingSelected(Selection)
    /\ Len(Selection.date_range) = 2
    /\ Len(Loaded.rows) >= 2
    /\ DateMax(Loaded) % TicksPerDay # 0

\* C8: the day-of-week distribution has the seven weekdays in order, each
\* with the number of matching records posted on it, 0 when there is none.
C8_DailyPatternCountsEveryDay ==
    page.daily_pattern # <<>> =>
        /\ Len(page.daily_pattern[1]) = 7
        /\ \A k \in 1..7 :
              /\ page.daily_pattern[1][k].label = WeekDays[k]
              /\ page.daily_pattern[1][k].value
                    = Num(Len(SelectSeq(Matches, LAMBDA r :
                            DayName(r.cells["Date"]) = S(WeekDays[k]))))

\* C9: after load, Hired and Easy Apply of every record are "Yes" or "No".
C9_HiredAndEasyApplyAreYesOrNo ==
    df # <<>> =>
        \A i \in DOMAIN Loaded.rows :
            /\ Loaded.rows[i].cells["Hired"] \in {S("Yes"), S("No")}
            /\ Loaded.rows[i].cells["Easy Apply"] \in {S("Yes"), S("No")}

\* C10: every record of the loaded table has a parsed date and a job title
\* that is text and not empty.
C10_DateAndTitlePresent ==
    df # <<>> =>
        \A i \in DOMAIN Loaded.rows :
            /\ Loaded.rows[i].cells["Date"].kind = "ts"
            /\ Loaded.rows[i].cells["Job Title"].kind = "str"
            /\ Loaded.rows[i].cells["Job Title"].val # <<>>

\* C11: each export of a run carries exactly the records of the filtered
\* subset (read back, each payload parses and yields the same record count
\* and the same set of job titles), and no run writes a file on the server.
C11_ExportsCarryTheFilteredSubset ==
    page.exports # <<>> =>
        LET subset == Matches
            expected == [parses |-> TRUE,
                         count |-> Len(subset),
                         titles |-> {subset[i].cells["Job Title"] : i \in DOMAIN subset}]
        IN /\ page.exports[1].csv = expected
           /\ page.exports[1].excel = expected
           /\ storage = {}

====
